---- MODULE Spec2Model ----
(***************************************************************************)
(* Model of the browser front end of the AI video summariser:              *)
(*   App          (orchestrator state, handleFileSelect / handleUpload /   *)
(*                 handleReset, the conditional rendering of the JSX)      *)
(*   UploadBox    (drag & drop surface, file picker)                       *)
(*   SummaryCard  (parseSummary and the list / raw-text rendering)         *)
(*   api.js       (uploadVideo, the onUploadProgress percentage)           *)
(*                                                                         *)
(* One action per event handler.  A handler runs to completion and React   *)
(* commits the batched state updates before the browser dispatches the     *)
(* next event, so the guards of the user actions are the conditions under  *)
(* which the JSX of the last commit renders (and enables) the element.     *)
(* handleUpload is split at its await: the part before it, the progress    *)
(* callbacks, and the continuation after the promise settles.              *)
(***************************************************************************)
EXTENDS Integers, Sequences, FiniteSets, TLC

(* ---------------- bounds of the model ---------------- *)

\* largest byte total of an upload body (progress events count 0..total)
MaxTotal == 4
\* cap on the number of requests the model keeps in flight
MaxInflight == 2
\* longest summary text handed to the summary display
MaxLen == 4
\* largest byte count of a progress event given to uploadVideo on its own
MaxBytes == 8

(* ---------------- JavaScript values ---------------- *)

\* the characters of the texts the model distinguishes; NL is '\n'
NL == "\n"
SP == " "
Chars == {"A", "B", SP, NL}
\* String.prototype.trim removes white space and line terminators
WhiteSpace == {SP, NL}

\* a JavaScript value that can be a response payload or the summary state:
\* null, undefined, a string (text) or an object (with or without a
\* `summary` property)
JSNull == [kind |-> "null", text |-> <<>>, hasSummary |-> FALSE, summary |-> <<>>]
JSUndefined == [kind |-> "undefined", text |-> <<>>, hasSummary |-> FALSE, summary |-> <<>>]
JSStr(s) == [kind |-> "str", text |-> s, hasSummary |-> FALSE, summary |-> <<>>]
JSObj(has, s) == [kind |-> "obj", text |-> <<>>, hasSummary |-> has, summary |-> s]

\* ToBoolean of such a value
Truthy(v) == \/ v.kind = "obj"
             \/ v.kind = "str" /\ v.text # <<>>

\* a || b
JSOr(a, b) == IF Truthy(a) THEN a ELSE b

\* messages are strings; these two stand for undefined and null
Undefined == "<undefined>"
NullMsg == "<null>"
TruthyMsg(s) == s \notin {Undefined, NullMsg, ""}
MsgOr(a, b) == IF TruthyMsg(a) THEN a ELSE b

(* ---------------- files ---------------- *)

VideoSlash == <<"v", "i", "d", "e", "o", "/">>
VideoMp4 == VideoSlash \o <<"m", "p", "4">>
VideoWebm == VideoSlash \o <<"w", "e", "b", "m">>
AppPdf == <<"a", "p", "p", "l", "i", "c", "a", "t", "i", "o", "n", "/", "p", "d", "f">>
TextPlain == <<"t", "e", "x", "t", "/", "p", "l", "a", "i", "n">>

\* file === null
NoFile == [name |-> "<null>", type |-> <<>>]
\* the files the user can pick or drop; File.type is "" when the browser
\* does not know the type
Files == { [name |-> "clip.mp4", type |-> VideoMp4],
           [name |-> "talk.webm", type |-> VideoWebm],
           [name |-> "notes.pdf", type |-> AppPdf],
           [name |-> "video.txt", type |-> TextPlain],
           [name |-> "movie.mkv", type |-> <<>>] }

\* String.prototype.startsWith
StartsWith(s, p) == /\ Len(s) >= Len(p)
                    /\ SubSeq(s, 1, Len(p)) = p

\* file.type.startsWith('video/')
IsVideo(f) == StartsWith(f.type, VideoSlash)

(* ---------------- what the server can answer ---------------- *)

SummaryText == <<"A", NL, "B">>

\* response.data of a 2xx answer: the documented object, an object whose
\* summary is the empty string, an object without a summary property, a
\* bare text, an empty body, and the JSON value null
Payloads == { JSObj(TRUE, SummaryText), JSObj(TRUE, <<>>), JSObj(FALSE, <<>>),
              JSStr(<<"A">>), JSStr(<<>>), JSNull }

\* what uploadVideo rejects with.  data is the kind of err.response.data:
\* "none" when there is no response (network failure, timeout), "obj" for a
\* JSON body, "str" for a text body (the proxy's HTML error page)
Details == {Undefined, "", "too large"}
ErrorFields == {Undefined, "", "bad format"}
Messages == {Undefined, "", "Network Error", "Request failed with status code 400"}
Errors == { e \in [data : {"none", "obj", "str"}, detail : Details,
                   error : ErrorFields, message : Messages] :
              e.data # "obj" => (e.detail = Undefined /\ e.error = Undefined) }
NoError == [data |-> "none", detail |-> Undefined, error |-> Undefined,
            message |-> Undefined]

\* the TypeError of reading a property of null
TypeErrorMsg == "Cannot read properties of null (reading 'summary')"
TypeErrorOf == [data |-> "none", detail |-> Undefined, error |-> Undefined,
                message |-> TypeErrorMsg]

DefaultMsg == "Failed to process video. Please try again."

(* ---------------- api.js ---------------- *)

\* Math.round replaced by Math.floor
RoundDiv_floor(n, d) == n \div d

\* Math.round of the non-negative rational n / d
RoundDiv(n, d) == (2 * n + d) \div (2 * d)

\* Math.round((progressEvent.loaded * 100) / progressEvent.total)
percentCompleted(loaded, total) == RoundDiv(loaded * 100, total)

\* the address used when none is configured
LocalHost == "http://localhost:5000"
\* the empty base address: paths relative to the page's origin
Relative == ""
\* import.meta.env.VITE_API_URL: not set, set to nothing, set to an address
ConfiguredUrls == {Undefined, "", "https://api.example.com"}

\* src/frontend/src/api.js:
\* VITE_API_URL || (import.meta.env.PROD ? '' : 'http://localhost:5000')
API_BASE(dev, url) == MsgOr(url, IF ~dev THEN Relative ELSE LocalHost)

\* the variant with the debug log:
\* isDevelopment ? (VITE_API_URL || 'http://localhost:5000') : ''
API_BASE_Verbose(dev, url) == IF dev THEN MsgOr(url, LocalHost) ELSE Relative

\* api.post('/api/upload', formData) with formData.append('file', file)
uploadRequest(base) ==
  [method |-> "POST", base |-> base, path |-> "/api/upload", field |-> "file"]

\* api.get('/health')
healthRequest(base) ==
  [method |-> "GET", base |-> base, path |-> "/health", field |-> ""]

NoRequest == [simple |-> [method |-> "", base |-> "", path |-> "", field |-> ""],
              verbose |-> [method |-> "", base |-> "", path |-> "", field |-> ""]]
NoProgressEvent == [loaded |-> 0, total |-> 0]
\* onProgress was not called
NotReported == 0 - 1

\* the HTTP status of the answer; 0 stands for no answer at all (network
\* failure, timeout)
Statuses == {0, 200, 204, 400, 413, 500}

\* a validateStatus that accepts every answer
validateStatus_any(status) == status >= 200

\* axios resolves the promise of api.post for a status in 200..299 and rejects
\* it otherwise (the default validateStatus, which api.js leaves in place)
validateStatus(status) == status >= 200 /\ status < 300

(* ---------------- SummaryCard ---------------- *)

RECURSIVE SplitNL(_)
\* text.split('\n')
SplitNL(s) ==
  IF \A i \in 1..Len(s) : s[i] # NL
  THEN <<s>>
  ELSE LET k == CHOOSE i \in 1..Len(s) :
                  s[i] = NL /\ \A j \in 1..(i - 1) : s[j] # NL
       IN <<SubSeq(s, 1, k - 1)>> \o SplitNL(SubSeq(s, k + 1, Len(s)))

RECURSIVE TrimStart(_)
TrimStart(s) == IF s # <<>> /\ Head(s) \in WhiteSpace THEN TrimStart(Tail(s)) ELSE s

RECURSIVE TrimEnd(_)
TrimEnd(s) == IF s # <<>> /\ s[Len(s)] \in WhiteSpace
              THEN TrimEnd(SubSeq(s, 1, Len(s) - 1)) ELSE s

\* line.trim()
Trim(s) == TrimEnd(TrimStart(s))

\* lines.map(line => line.trim())
TrimAll(lines) == [i \in 1..Len(lines) |-> Trim(lines[i])]

NonEmptyLine(line) == Len(line) > 0

\* parseSummary without the filter of empty lines
parseSummary_noFilter(text) ==
  IF text = <<>> THEN <<>>
  ELSE TrimAll(SplitNL(text))

\* parseSummary on a string: '' gives [], otherwise split, trim, filter
parseSummary(text) ==
  IF text = <<>> THEN <<>>
  ELSE SelectSeq(TrimAll(SplitNL(text)), NonEmptyLine)

\* what SummaryCard shows for a string: the bullets, or the raw text
SummaryCard(text) ==
  LET keyPoints == parseSummary(text)
  IN IF Len(keyPoints) > 0
     THEN [mode |-> "list", items |-> keyPoints, raw |-> <<>>]
     ELSE [mode |-> "raw", items |-> <<>>, raw |-> text]

\* a truthy summary that is not a string has no split method: the render of
\* SummaryCard throws
SummaryCardThrows(v) == Truthy(v) /\ v.kind # "str"

(* ---------------- state ---------------- *)

VARIABLES
  file,            \* App: useState(null)
  uploadProgress,  \* App: useState(0)
  loading,         \* App: useState(false)
  summary,         \* App: useState(null)
  error,           \* App: useState(null), a message or NullMsg
  isDragging,      \* UploadBox: useState(false)
  pickerOpen,      \* UploadBox: the file dialog opened by fileInputRef.current.click()
  mounted,         \* FALSE once a render has thrown (React unmounts the tree)
  requests,        \* the api.post calls awaiting their response, oldest first
  lastOp,          \* history: the handler that ran last
  lastFile,        \* history: the candidate file of the last drop / picker change
  selected,        \* history: the last handler invoked onFileSelect
  prevPhase,       \* history: the orchestrator state the last handler started in
  lastPayload,     \* history: the payload the request resolved with in the last step
  lastErr,         \* history: the value the catch block caught in the last step
  lastStatus,      \* history: the HTTP status that settled the request in the last step
  cardText,        \* SummaryCard: the summary prop (a string)
  cardView,        \* SummaryCard: what it rendered for cardText
  envDev,          \* api.js: import.meta.env.DEV (import.meta.env.PROD is its negation)
  envUrl,          \* api.js: import.meta.env.VITE_API_URL
  apiPc,           \* api.js: "start" before the module is evaluated, "loaded" after
  apiBase,         \* api.js: API_BASE of src/frontend/src/api.js
  apiBaseVerbose,  \* api.js: API_BASE of the variant with the debug log
  lastRequest,     \* api.js: the request the last call handed to axios, per variant
  progressEvent,   \* api.js: the last progress event given to onUploadProgress
  reported         \* api.js: what the last progress event passed to onProgress

appVars == <<file, uploadProgress, loading, summary, error>>
histVars == <<lastOp, lastFile, selected, prevPhase, lastPayload, lastErr, lastStatus>>
cardVars == <<cardText, cardView>>
apiVars == <<envDev, envUrl, apiPc, apiBase, apiBaseVerbose, lastRequest,
             progressEvent, reported>>
\* the state of the components an App handler does not touch
sideVars == <<cardVars, apiVars>>
vars == <<file, uploadProgress, loading, summary, error, isDragging, pickerOpen,
          mounted, requests, lastOp, lastFile, selected, prevPhase, lastPayload,
          lastErr, lastStatus, cardText, cardView, envDev, envUrl, apiPc, apiBase,
          apiBaseVerbose, lastRequest, progressEvent, reported>>

NotRendered == [mode |-> "none", items |-> <<>>, raw |-> <<>>]

Init ==
  /\ file = NoFile
  /\ uploadProgress = 0
  /\ loading = FALSE
  /\ summary = JSNull
  /\ error = NullMsg
  /\ isDragging = FALSE
  /\ pickerOpen = FALSE
  /\ mounted = TRUE
  /\ requests = <<>>
  /\ lastOp = "init"
  /\ lastFile = NoFile
  /\ selected = FALSE
  /\ prevPhase = "noFile"
  /\ lastPayload = JSNull
  /\ lastErr = NoError
  /\ lastStatus = 0
  /\ cardText = <<>>
  /\ cardView = NotRendered
  /\ envDev = TRUE
  /\ envUrl = Undefined
  /\ apiPc = "loaded"
  /\ apiBase = LocalHost
  /\ apiBaseVerbose = LocalHost
  /\ lastRequest = NoRequest
  /\ progressEvent = NoProgressEvent
  /\ reported = NotReported

(* ---------------- what the JSX renders ---------------- *)

\* {!summary && <UploadBox onFileSelect={handleFileSelect} disabled={loading} />}
UploadBoxRendered == mounted /\ ~Truthy(summary)

\* UploadBox rendered without the disabled prop
disabled_notPassed == FALSE

disabled == loading

\* the file actions rendered whenever a file is selected
FileActionsRendered_withSummary == mounted /\ file # NoFile

\* {file && !summary && ( ... Cancel / Process Video ... )}
FileActionsRendered == mounted /\ file # NoFile /\ ~Truthy(summary)
\* the Cancel button enabled whenever a file is selected
CancelEnabled_always == mounted /\ file # NoFile

\* the Cancel button without disabled={loading}
CancelEnabled_whileLoading == mounted /\ file # NoFile /\ ~Truthy(summary)

\* the Process Video button without disabled={loading}
ProcessEnabled_whileLoading == mounted /\ file # NoFile /\ ~Truthy(summary)

\* <button onClick={handleReset} disabled={loading}>Cancel</button>
CancelEnabled == FileActionsRendered /\ ~loading
\* <button onClick={handleUpload} disabled={loading}>Process Video</button>
ProcessEnabled == FileActionsRendered /\ ~loading

\* {error && ( ... <button onClick={() => setError(null)}> ... )}
ErrorBoxRendered == mounted /\ TruthyMsg(error)

\* {summary && ( <SummaryCard/> ... Upload Another Video ... )}
SummaryRendered == mounted /\ Truthy(summary)

(* ---------------- App handlers ---------------- *)

\* handleFileSelect without setUploadProgress(0)
handleFileSelect_keepProgress(f) ==
  /\ file' = f
  /\ summary' = JSNull
  /\ error' = NullMsg
  /\ UNCHANGED <<uploadProgress, loading>>

\* handleFileSelect without setSummary(null)
handleFileSelect_keepSummary(f) ==
  /\ file' = f
  /\ error' = NullMsg
  /\ uploadProgress' = 0
  /\ UNCHANGED <<loading, summary>>

\* handleFileSelect(selectedFile): the four setters
handleFileSelect(f) ==
  /\ file' = f
  /\ summary' = JSNull
  /\ error' = NullMsg
  /\ uploadProgress' = 0
  /\ UNCHANGED loading

\* the orchestrator's state machine over
\* {no-file, file-selected, uploading, success, error}
Phase == IF loading THEN "uploading"
         ELSE IF Truthy(summary) THEN "success"
         ELSE IF TruthyMsg(error) THEN "error"
         ELSE IF file = NoFile THEN "noFile"
         ELSE "fileSelected"

\* history of the step: the handler, its candidate file, the state it started in
Event(op, f) == /\ lastOp' = op
                /\ lastFile' = f
                /\ prevPhase' = Phase

\* no request settles in this step
NoSettle == lastPayload' = JSNull /\ lastErr' = NoError /\ lastStatus' = 0

(* ---------------- UploadBox handlers ---------------- *)

handleDragEnter ==
  /\ UploadBoxRendered
  /\ isDragging' = TRUE
  /\ Event("dragEnter", NoFile)
  /\ selected' = FALSE
  /\ NoSettle
  /\ UNCHANGED <<appVars, mounted, requests, sideVars, pickerOpen>>

handleDragLeave ==
  /\ UploadBoxRendered
  /\ isDragging' = FALSE
  /\ Event("dragLeave", NoFile)
  /\ selected' = FALSE
  /\ NoSettle
  /\ UNCHANGED <<appVars, mounted, requests, sideVars, pickerOpen>>

\* handleDrop with the disabled check before setIsDragging(false)
handleDrop_returnFirst(f) ==
  /\ UploadBoxRendered
  /\ isDragging' = IF disabled THEN isDragging ELSE FALSE
  /\ Event("drop", f)
  /\ IF disabled \/ f = NoFile
     THEN /\ selected' = FALSE
          /\ UNCHANGED appVars
     ELSE IF IsVideo(f)
          THEN /\ selected' = TRUE
               /\ handleFileSelect(f)
          ELSE /\ selected' = FALSE
               /\ UNCHANGED appVars
  /\ NoSettle
  /\ UNCHANGED <<mounted, requests, sideVars, pickerOpen>>

\* handleDrop with e.dataTransfer.files = [f, ...]; f = NoFile is the empty list
handleDrop(f) ==
  /\ UploadBoxRendered
  /\ isDragging' = FALSE
  /\ Event("drop", f)
  /\ IF disabled \/ f = NoFile
     THEN /\ selected' = FALSE
          /\ UNCHANGED appVars
     ELSE IF IsVideo(f)
          THEN /\ selected' = TRUE
               /\ handleFileSelect(f)
          ELSE \* alert('Please upload a video file')
               /\ selected' = FALSE
               /\ UNCHANGED appVars
  /\ NoSettle
  /\ UNCHANGED <<mounted, requests, sideVars, pickerOpen>>

\* handleClick: fileInputRef.current?.click() opens the file dialog unless the
\* surface is disabled (click() on the disabled input does nothing either)
handleClick ==
  /\ UploadBoxRendered
  /\ pickerOpen' = ~disabled
  /\ Event("click", NoFile)
  /\ selected' = FALSE
  /\ NoSettle
  /\ UNCHANGED <<appVars, isDragging, mounted, requests, sideVars>>

\* handleFileInput: the change event of <input type="file" disabled={disabled}>,
\* when the file dialog opened by handleClick closes; f = NoFile is
\* e.target.files?.[0] === undefined (the dialog was dismissed).
\* The accept="video/*" attribute only presets the picker's filter, the user
\* can still choose any file.
handleFileInput(f) ==
  /\ UploadBoxRendered
  /\ pickerOpen
  /\ ~disabled
  /\ Event("fileInput", f)
  /\ IF f # NoFile
     THEN /\ selected' = TRUE
          /\ handleFileSelect(f)
     ELSE /\ selected' = FALSE
          /\ UNCHANGED appVars
  /\ pickerOpen' = FALSE
  /\ NoSettle
  /\ UNCHANGED <<isDragging, mounted, requests, sideVars>>

(* ---------------- handleUpload ---------------- *)

\* the byte totals of a request body; 0 stands for a progress event whose
\* total is not computable (progressEvent.total is falsy)
Totals == 0..MaxTotal

\* the settled request is sent again instead of being dropped
RemoveAt_resend(q, i) == q

\* the queue of pending requests without the one that settled
RemoveAt(q, i) == SubSeq(q, 1, i - 1) \o SubSeq(q, i + 1, Len(q))

\* handleUpload without setError(null)
handleUploadSetters_keepError ==
  /\ loading' = TRUE
  /\ summary' = JSNull
  /\ uploadProgress' = 0
  /\ UNCHANGED error

\* handleUpload without setUploadProgress(0)
handleUploadSetters_keepProgress ==
  /\ loading' = TRUE
  /\ error' = NullMsg
  /\ summary' = JSNull
  /\ UNCHANGED uploadProgress

\* handleUpload without setSummary(null)
handleUploadSetters_keepSummary ==
  /\ loading' = TRUE
  /\ error' = NullMsg
  /\ uploadProgress' = 0
  /\ UNCHANGED summary

\* the four setters handleUpload calls before the request
handleUploadSetters ==
  /\ loading' = TRUE
  /\ error' = NullMsg
  /\ summary' = JSNull
  /\ uploadProgress' = 0

\* handleUpload without its first line, if (!file) return
handleUpload_noReturn(total) ==
  /\ mounted
  /\ Len(requests) < MaxInflight
  /\ Event("upload", NoFile)
  /\ selected' = FALSE
  /\ handleUploadSetters
  /\ requests' = Append(requests, [loaded |-> 0, total |-> total])
  /\ UNCHANGED file
  /\ NoSettle
  /\ UNCHANGED <<isDragging, mounted, sideVars, pickerOpen>>

\* handleUpload up to its await
handleUpload(total) ==
  /\ mounted
  /\ Len(requests) < MaxInflight
  /\ Event("upload", NoFile)
  /\ selected' = FALSE
  /\ IF file = NoFile
     THEN UNCHANGED <<appVars, requests>>
     ELSE /\ handleUploadSetters
          /\ requests' = Append(requests, [loaded |-> 0, total |-> total])
          /\ UNCHANGED file
  /\ NoSettle
  /\ UNCHANGED <<isDragging, mounted, sideVars, pickerOpen>>

\* the progress callback ending the upload when it reports 100
onUploadProgress_endsAtFull(i, loaded) ==
  /\ mounted
  /\ i \in 1..Len(requests)
  /\ loaded >= requests[i].loaded
  /\ loaded <= (IF requests[i].total = 0 THEN MaxTotal ELSE requests[i].total)
  /\ requests' = [requests EXCEPT ![i].loaded = loaded]
  /\ IF requests[i].total # 0
     THEN /\ uploadProgress' = percentCompleted(loaded, requests[i].total)
          /\ loading' = (loading /\ uploadProgress' # 100)
     ELSE UNCHANGED <<uploadProgress, loading>>
  /\ Event("progress", NoFile)
  /\ selected' = FALSE
  /\ NoSettle
  /\ UNCHANGED <<file, summary, error, isDragging, mounted, sideVars, pickerOpen>>

\* onUploadProgress of request i: the bytes sent so far never decrease and
\* never exceed the total; the callback runs only when the total is truthy
onUploadProgress(i, loaded) ==
  /\ mounted
  /\ i \in 1..Len(requests)
  /\ loaded >= requests[i].loaded
  /\ loaded <= (IF requests[i].total = 0 THEN MaxTotal ELSE requests[i].total)
  /\ requests' = [requests EXCEPT ![i].loaded = loaded]
  /\ IF requests[i].total # 0
     THEN uploadProgress' = percentCompleted(loaded, requests[i].total)
     ELSE UNCHANGED uploadProgress
  /\ Event("progress", NoFile)
  /\ selected' = FALSE
  /\ NoSettle
  /\ UNCHANGED <<file, loading, summary, error, isDragging, mounted, sideVars, pickerOpen>>

\* the chain with the error field looked at before the detail field
errorMessage_errorFirst(err) ==
  MsgOr(MsgOr(MsgOr(err.error, err.detail), err.message), DefaultMsg)

\* the chain without its static default
errorMessage_noDefault(err) ==
  MsgOr(MsgOr(err.detail, err.error), err.message)

\* err.response?.data?.detail || err.response?.data?.error || err.message
\*   || 'Failed to process video. Please try again.'
errorMessage(err) ==
  MsgOr(MsgOr(MsgOr(err.detail, err.error), err.message), DefaultMsg)

\* result.summary
summaryOf(result) ==
  IF result.kind = "obj" /\ result.hasSummary THEN JSStr(result.summary)
  ELSE JSUndefined

\* reading a property of null or undefined throws a TypeError
summaryThrows(result) == result.kind \in {"null", "undefined"}

\* the catch block without the finally block
catchBlock_noFinally(err) ==
  /\ error' = errorMessage(err)
  /\ UNCHANGED <<file, uploadProgress, loading, summary, isDragging, mounted>>

\* the catch block also setting the progress back to 0
catchBlock_resetProgress(err) ==
  /\ error' = errorMessage(err)
  /\ loading' = FALSE
  /\ uploadProgress' = 0
  /\ UNCHANGED <<file, summary, isDragging, mounted>>

\* the catch block and the finally block
catchBlock(err) ==
  /\ error' = errorMessage(err)
  /\ loading' = FALSE
  /\ UNCHANGED <<file, uploadProgress, summary, isDragging, mounted>>

\* the continuation of handleUpload when request i resolves with result
uploadResolved(i, result) ==
  /\ mounted
  /\ i \in 1..Len(requests)
  /\ requests' = RemoveAt(requests, i)
  /\ Event("resolve", NoFile)
  /\ selected' = FALSE
  /\ lastPayload' = result
  /\ IF summaryThrows(result)
     THEN /\ catchBlock(TypeErrorOf)
          /\ lastErr' = TypeErrorOf
     ELSE /\ summary' = JSOr(summaryOf(result), result)
          /\ uploadProgress' = 100
          /\ loading' = FALSE
          \* the commit: a truthy summary replaces UploadBox by SummaryCard
          /\ mounted' = ~SummaryCardThrows(summary')
          /\ isDragging' = IF Truthy(summary') THEN FALSE ELSE isDragging
          /\ lastErr' = NoError
          /\ UNCHANGED <<file, error>>
  /\ UNCHANGED <<sideVars, pickerOpen>>

\* the continuation of handleUpload when request i rejects with err
uploadRejected(i, err) ==
  /\ mounted
  /\ i \in 1..Len(requests)
  /\ requests' = RemoveAt(requests, i)
  /\ Event("reject", NoFile)
  /\ selected' = FALSE
  /\ lastErr' = err
  /\ lastPayload' = JSNull
  /\ catchBlock(err)
  /\ UNCHANGED <<sideVars, pickerOpen>>

(* ---------------- the other buttons ---------------- *)

\* the dismiss button wired to the reset of the whole state
dismissError_resets ==
  /\ ErrorBoxRendered
  /\ error' = NullMsg
  /\ file' = NoFile
  /\ summary' = JSNull
  /\ uploadProgress' = 0
  /\ Event("dismiss", NoFile)
  /\ selected' = FALSE
  /\ NoSettle
  /\ UNCHANGED <<loading, isDragging, mounted, requests, sideVars, pickerOpen>>

\* onClick={() => setError(null)}
dismissError ==
  /\ ErrorBoxRendered
  /\ error' = NullMsg
  /\ Event("dismiss", NoFile)
  /\ selected' = FALSE
  /\ NoSettle
  /\ UNCHANGED <<file, uploadProgress, loading, summary, isDragging, mounted,
                 requests, sideVars, pickerOpen>>

\* handleReset, from "Cancel" or from "Upload Another Video"
handleReset ==
  /\ CancelEnabled \/ SummaryRendered
  /\ file' = NoFile
  /\ summary' = JSNull
  /\ error' = NullMsg
  /\ uploadProgress' = 0
  /\ Event("reset", NoFile)
  /\ selected' = FALSE
  /\ NoSettle
  /\ UNCHANGED <<loading, isDragging, mounted, requests, sideVars, pickerOpen>>

(* ---------------- the application ---------------- *)

\* the file dialog is modal: while it is open the page takes no other input
DragEnter == ~pickerOpen /\ handleDragEnter
DragLeave == ~pickerOpen /\ handleDragLeave
Drop == ~pickerOpen /\ \E f \in Files \cup {NoFile} : handleDrop(f)
Click == ~pickerOpen /\ handleClick
FileInput == \E f \in Files \cup {NoFile} : handleFileInput(f)
\* the click on "Process Video"
StartUpload == ~pickerOpen /\ ProcessEnabled /\ \E t \in Totals : handleUpload(t)
Progress == \E i \in 1..MaxInflight, l \in 0..MaxTotal : onUploadProgress(i, l)
\* the answer of the server: a 2xx status resolves the request with its body
Resolve == \E i \in 1..MaxInflight, st \in Statuses, r \in Payloads :
             /\ validateStatus(st)
             /\ uploadResolved(i, r)
             /\ lastStatus' = st
\* any other status, or no answer, rejects it; the error carries a response
\* exactly when there was an answer
Reject == \E i \in 1..MaxInflight, st \in Statuses, e \in Errors :
            /\ ~validateStatus(st)
            /\ (st = 0) <=> (e.data = "none")
            /\ uploadRejected(i, e)
            /\ lastStatus' = st
Dismiss == ~pickerOpen /\ dismissError
Reset == ~pickerOpen /\ handleReset

Next == \/ DragEnter
        \/ DragLeave
        \/ Drop
        \/ Click
        \/ FileInput
        \/ StartUpload
        \/ Progress
        \/ Resolve
        \/ Reject
        \/ Dismiss
        \/ Reset

Spec == Init /\ [][Next]_vars

\* every request settles: the server answers, the connection fails, or the
\* timeout of 5 minutes set in axios.create ends the wait
Settles == WF_vars(Resolve \/ Reject)

SpecLive == Init /\ [][Next]_vars /\ Settles

(* ---------------- handleUpload called as a function ---------------- *)

\* "Process Video" is rendered only with a file, so a click never reaches
\* the first line of handleUpload with file === null; here the handler is
\* also called directly in the states where no file is selected
CallUpload == file = NoFile /\ \E t \in Totals : handleUpload(t)

NextCall == \/ Next
            \/ CallUpload

SpecCall == Init /\ [][NextCall]_vars

(* ---------------- the summary display on its own ---------------- *)

\* the example of the specification: "A\nB\n\nC"
ExampleText == <<"A", NL, "B", NL, NL, "C">>

\* every text of at most MaxLen characters, and the example
Texts == UNION { [1..n -> Chars] : n \in 0..MaxLen } \cup {ExampleText}

InitCard ==
  /\ file = NoFile
  /\ uploadProgress = 0
  /\ loading = FALSE
  /\ summary = JSNull
  /\ error = NullMsg
  /\ isDragging = FALSE
  /\ pickerOpen = FALSE
  /\ mounted = TRUE
  /\ requests = <<>>
  /\ lastOp = "init"
  /\ lastFile = NoFile
  /\ selected = FALSE
  /\ prevPhase = "noFile"
  /\ lastPayload = JSNull
  /\ lastErr = NoError
  /\ lastStatus = 0
  /\ cardText \in Texts
  /\ cardView = NotRendered
  /\ envDev = TRUE
  /\ envUrl = Undefined
  /\ apiPc = "loaded"
  /\ apiBase = LocalHost
  /\ apiBaseVerbose = LocalHost
  /\ lastRequest = NoRequest
  /\ progressEvent = NoProgressEvent
  /\ reported = NotReported

\* the render of <SummaryCard summary={cardText} />
RenderCard ==
  /\ cardView = NotRendered
  /\ cardView' = SummaryCard(cardText)
  /\ UNCHANGED <<appVars, isDragging, pickerOpen, mounted, requests, histVars,
                 cardText, apiVars>>

NextCard == RenderCard

SpecCard == InitCard /\ [][NextCard]_vars

(* ---------------- the client wrapper on its own ---------------- *)

InitApi ==
  /\ file = NoFile
  /\ uploadProgress = 0
  /\ loading = FALSE
  /\ summary = JSNull
  /\ error = NullMsg
  /\ isDragging = FALSE
  /\ pickerOpen = FALSE
  /\ mounted = TRUE
  /\ requests = <<>>
  /\ lastOp = "init"
  /\ lastFile = NoFile
  /\ selected = FALSE
  /\ prevPhase = "noFile"
  /\ lastPayload = JSNull
  /\ lastErr = NoError
  /\ lastStatus = 0
  /\ cardText = <<>>
  /\ cardView = NotRendered
  /\ envDev \in BOOLEAN
  /\ envUrl \in ConfiguredUrls
  /\ apiPc = "start"
  /\ apiBase = Undefined
  /\ apiBaseVerbose = Undefined
  /\ lastRequest = NoRequest
  /\ progressEvent = NoProgressEvent
  /\ reported = NotReported

appSide == <<appVars, isDragging, pickerOpen, mounted, requests, histVars, cardVars>>

\* the evaluation of the module: const API_BASE = ..., axios.create({baseURL})
loadModule ==
  /\ apiPc = "start"
  /\ apiPc' = "loaded"
  /\ apiBase' = API_BASE(envDev, envUrl)
  /\ apiBaseVerbose' = API_BASE_Verbose(envDev, envUrl)
  /\ UNCHANGED <<envDev, envUrl, lastRequest, progressEvent, reported, appSide>>

\* uploadVideo(file, onProgress) up to its await
uploadVideo ==
  /\ apiPc = "loaded"
  /\ lastRequest' = [simple |-> uploadRequest(apiBase),
                     verbose |-> uploadRequest(apiBaseVerbose)]
  /\ progressEvent' = NoProgressEvent
  /\ reported' = NotReported
  /\ UNCHANGED <<envDev, envUrl, apiPc, apiBase, apiBaseVerbose, appSide>>

\* checkHealth()
checkHealth ==
  /\ apiPc = "loaded"
  /\ lastRequest' = [simple |-> healthRequest(apiBase),
                     verbose |-> healthRequest(apiBaseVerbose)]
  /\ progressEvent' = NoProgressEvent
  /\ reported' = NotReported
  /\ UNCHANGED <<envDev, envUrl, apiPc, apiBase, apiBaseVerbose, appSide>>

\* the onUploadProgress option of the upload: onProgress is called with the
\* percentage when progressEvent.total is truthy
uploadProgressEvent(loaded, total) ==
  /\ apiPc = "loaded"
  /\ lastRequest.simple.method = "POST"
  /\ loaded <= (IF total = 0 THEN MaxBytes ELSE total)
  /\ progressEvent' = [loaded |-> loaded, total |-> total]
  /\ reported' = IF total # 0 THEN percentCompleted(loaded, total) ELSE NotReported
  /\ UNCHANGED <<envDev, envUrl, apiPc, apiBase, apiBaseVerbose, lastRequest, appSide>>

ProgressEvent == \E l \in 0..MaxBytes, t \in 0..MaxBytes : uploadProgressEvent(l, t)

NextApi == \/ loadModule
           \/ uploadVideo
           \/ checkHealth
           \/ ProgressEvent

SpecApi == InitApi /\ [][NextApi]_vars

(* ======================= the claims ======================= *)

Populated(v) == v # JSNull
ErrorPopulated == error # NullMsg

\* the orchestrator's initial state
InitialApp == /\ file = NoFile
              /\ uploadProgress = 0
              /\ summary = JSNull
              /\ error = NullMsg

(* C1: a file whose media type does not start with 'video/', dropped or    *)
(* picked, never reaches onFileSelect.  The picker path has no type check: *)
(* TLC finds this invariant violated.                                      *)
C1_NonVideoNeverSelected ==
  (lastOp \in {"drop", "fileInput"} /\ lastFile # NoFile /\ ~IsVideo(lastFile))
    => ~selected

(* C2: in every reachable state at most one of summary and error is        *)
(* populated (non-null).                                                   *)
C2_AtMostOnePopulated == ~(Populated(summary) /\ ErrorPopulated)

\* a failed upload after some progress: the error is shown, the summary is not
C2_Witness == /\ lastOp = "reject"
              /\ ErrorPopulated
              /\ ~Populated(summary)
              /\ uploadProgress > 0

(* C3: once handleUpload has finished after the request resolved, with any *)
(* payload, progress is 100, the summary is populated and the error is     *)
(* not.  A null payload makes result.summary throw: TLC finds this         *)
(* invariant violated.                                                     *)
C3_ResolvedEndsInSuccess ==
  lastOp = "resolve" =>
    /\ uploadProgress = 100
    /\ Populated(summary)
    /\ ~ErrorPopulated

(* C4: after a selection was propagated to handleFileSelect the selected   *)
(* file is the new file, summary and error are empty and progress is 0,    *)
(* whatever the state before.                                              *)
C4_SelectClears ==
  (lastOp \in {"drop", "fileInput"} /\ selected) =>
    /\ file = lastFile
    /\ file # NoFile
    /\ summary = JSNull
    /\ error = NullMsg
    /\ uploadProgress = 0
    /\ Phase = "fileSelected"

\* a new file selected while the error of a failed upload was displayed
C4_Witness == /\ lastOp \in {"drop", "fileInput"}
              /\ selected
              /\ prevPhase = "error"
              /\ file = lastFile

(* C5: the message displayed after a failed upload.                        *)
Present(x) == x # Undefined
NonEmpty(x) == x \notin {Undefined, NullMsg, ""}

(* C5, as stated: the detail field if present, else the error field if     *)
(* present, else the transport message if present, else the default.  An   *)
(* empty detail is present but is skipped: TLC finds this violated.        *)
C5_PresentPrecedence ==
  lastOp = "reject" =>
    error = IF Present(lastErr.detail) THEN lastErr.detail
            ELSE IF Present(lastErr.error) THEN lastErr.error
            ELSE IF Present(lastErr.message) THEN lastErr.message
            ELSE DefaultMsg

(* C5, amended: the detail field if present and non-empty, else the error  *)
(* field if present and non-empty, else the transport message if present   *)
(* and non-empty, else the default; {detail: 'too large'} displays         *)
(* 'too large', {error: 'bad format'} without detail displays 'bad format'.*)
C5_NonEmptyPrecedence ==
  lastOp = "reject" =>
    /\ error = IF NonEmpty(lastErr.detail) THEN lastErr.detail
               ELSE IF NonEmpty(lastErr.error) THEN lastErr.error
               ELSE IF NonEmpty(lastErr.message) THEN lastErr.message
               ELSE DefaultMsg
    /\ lastErr.detail = "too large" => error = "too large"
    /\ (lastErr.detail = Undefined /\ lastErr.error = "bad format")
         => error = "bad format"

\* both fields in the body: the detail wins
C5_Witness == /\ lastOp = "reject"
              /\ lastErr.detail = "too large"
              /\ lastErr.error = "bad format"
              /\ error = "too large"

(* C6: the bullets of the summary display, stated on the positions of the  *)
(* text instead of by split / trim / filter.                               *)

\* the positions of the line breaks, with the two ends of the text
BreakSet(t) == {0, Len(t) + 1} \cup {i \in 1..Len(t) : t[i] = NL}

\* the lines: <<a, b>> for two consecutive breaks a < b
LineSpans(t) == { sp \in BreakSet(t) \X BreakSet(t) :
                    /\ sp[1] < sp[2]
                    /\ ~\E c \in BreakSet(t) : sp[1] < c /\ c < sp[2] }

\* the positions of a line that are not white space
Inked(t, sp) == {i \in (sp[1] + 1)..(sp[2] - 1) : t[i] \notin WhiteSpace}

MinOf(S) == CHOOSE x \in S : \A y \in S : x <= y
MaxOf(S) == CHOOSE x \in S : \A y \in S : x >= y

\* the lines that are not empty once trimmed, in the order of the text, each
\* from its first to its last character that is not white space
ExpectedBullets(t) ==
  LET B == {sp \in LineSpans(t) : Inked(t, sp) # {}}
      n == Cardinality(B)
      ord == CHOOSE f \in [1..n -> B] :
               \A i, j \in 1..n : i < j => f[i][1] < f[j][1]
  IN [k \in 1..n |-> SubSeq(t, MinOf(Inked(t, ord[k])), MaxOf(Inked(t, ord[k])))]

(* C6: for every text given to the summary display the rendered bullets    *)
(* are exactly the lines of the text, trimmed, empty lines dropped, order  *)
(* kept; with at least one such line a list is rendered, otherwise the raw *)
(* text; "A\nB\n\nC" renders exactly the bullets A, B, C.                  *)
C6_BulletsAreTrimmedLines ==
  cardView # NotRendered =>
    /\ IF ExpectedBullets(cardText) # <<>>
       THEN /\ cardView.mode = "list"
            /\ cardView.items = ExpectedBullets(cardText)
       ELSE /\ cardView.mode = "raw"
            /\ cardView.raw = cardText
    /\ cardText = ExampleText => cardView.items = << <<"A">>, <<"B">>, <<"C">> >>

\* the example, rendered: three bullets, the blank line dropped
C6_Witness == /\ cardText = ExampleText
              /\ cardView.mode = "list"
              /\ Len(cardView.items) = 3

(* C7: after a reset the orchestrator is in its initial state (no file,    *)
(* progress 0, no summary, no error) and nothing is pending that could     *)
(* change it: no upload is in flight, so it stays there until the user     *)
(* acts.                                                                   *)
C7_ResetReturnsToInitial ==
  lastOp = "reset" =>
    /\ InitialApp
    /\ ~loading
    /\ requests = <<>>
    /\ Phase = "noFile"

\* "Upload Another Video" after a displayed summary
C7_Witness == /\ lastOp = "reset"
              /\ prevPhase = "success"
              /\ InitialApp

(* C8: the progress is an integer in 0..100, it is 0 when an upload starts, *)
(* and while the upload is in flight no step decreases it (progress        *)
(* callbacks, and the forcing to 100 on success).                          *)
C8_ProgressMonotone ==
  /\ [](uploadProgress \in 0..100)
  /\ [][ /\ (lastOp' = "upload" /\ loading') => uploadProgress' = 0
         /\ loading => uploadProgress' >= uploadProgress ]_vars

\* half of the body sent, reported by a progress callback
C8_Witness == /\ loading
              /\ lastOp = "progress"
              /\ uploadProgress = 50

(* C9: at most one upload request is in flight.                            *)
C9_SingleRequest == Len(requests) <= 1

\* a request is pending and the Process Video button is rendered, disabled
C9_Witness == /\ Len(requests) = 1
              /\ loading
              /\ FileActionsRendered
              /\ ~ProcessEnabled

(* C10, as stated: a request is issued, and the orchestrator moves to      *)
(* uploading, only from the file-selected state.  The button is also       *)
(* enabled while an error is displayed: TLC finds this violated.           *)
C10_OnlyFromFileSelected ==
  (lastOp = "upload" /\ loading) => prevPhase = "fileSelected"

(* C10, amended: a request is issued, and the orchestrator moves to        *)
(* uploading, only when a file is selected, no upload is in flight and no  *)
(* summary is displayed: from the file-selected state or from the error    *)
(* state, never from the no-file, uploading or success state.              *)
C10_OnlyFromFileSelectedOrError ==
  /\ (lastOp = "upload" /\ loading) => prevPhase \in {"fileSelected", "error"}
  /\ (lastOp = "upload" /\ loading) => (file # NoFile /\ Len(requests) >= 1)
  /\ (lastOp = "upload") => loading

\* the same file submitted again after a failed upload
C10_Witness == /\ lastOp = "upload"
               /\ loading
               /\ prevPhase = "error"

(* C11, as stated: while an upload is in flight neither a click, a drop    *)
(* nor a file-picker change invokes the selection callback or changes any  *)
(* state of the upload surface or of the orchestrator.  handleDrop clears  *)
(* the drag-hover flag before it looks at disabled: TLC finds this         *)
(* violated.                                                               *)
C11_DisabledBlocksEverything ==
  [][ (loading /\ lastOp' \in {"click", "drop", "fileInput"}) =>
        /\ ~selected'
        /\ UNCHANGED appVars
        /\ UNCHANGED <<isDragging, pickerOpen>> ]_vars

(* C11, amended: while an upload is in flight neither a click, a drop nor  *)
(* a file-picker change invokes the selection callback, opens the file     *)
(* dialog or changes any orchestrator state; the only upload-surface state *)
(* they change is the drag-hover flag, which a drop clears.                *)
C11_DisabledBlocksSelection ==
  [][ (loading /\ lastOp' \in {"click", "drop", "fileInput"}) =>
        /\ ~selected'
        /\ UNCHANGED appVars
        /\ UNCHANGED pickerOpen
        /\ ~pickerOpen
        /\ isDragging' # isDragging => (lastOp' = "drop" /\ ~isDragging') ]_vars

\* a video dropped on the surface while an upload is in flight
C11_Witness == /\ lastOp = "drop"
               /\ prevPhase = "uploading"
               /\ loading
               /\ IsVideo(lastFile)
               /\ ~selected

\* VITE_API_URL is set to an address
Configured(url) == url \notin {Undefined, ""}

(* C12: the base address of the client wrapper is, in development mode,    *)
(* the configured address if one is set and 'http://localhost:5000'        *)
(* otherwise, and in production mode always empty, configured or not.      *)
(* src/frontend/src/api.js looks at VITE_API_URL first, in every mode: TLC *)
(* finds this violated.                                                    *)
C12_BaseAddress ==
  apiPc = "loaded" =>
    apiBase = IF envDev
              THEN (IF Configured(envUrl) THEN envUrl ELSE LocalHost)
              ELSE Relative

(* C14: for a progress event with 0 <= loaded <= total and total > 0 the   *)
(* value passed to the progress callback is loaded*100/total rounded to    *)
(* the nearest whole percent (a half rounds up), and lies in 0..100.       *)
C14_RoundedPercent ==
  progressEvent.total > 0 =>
    /\ reported \in 0..100
    /\ 2 * reported * progressEvent.total
         > 200 * progressEvent.loaded - progressEvent.total
    /\ 2 * reported * progressEvent.total
         <= 200 * progressEvent.loaded + progressEvent.total

\* one byte of eight sent: 12.5 is reported as 13
C14_Witness == /\ progressEvent = [loaded |-> 1, total |-> 8]
               /\ reported = 13

(* C17: the two implementations of the client wrapper resolve the same     *)
(* base address for every build mode and configured address, and issue the *)
(* same requests for upload and checkHealth.  They differ in production    *)
(* mode with an address configured: TLC finds this violated.               *)
C17_SameBaseAddress ==
  apiPc = "loaded" =>
    /\ apiBase = apiBaseVerbose
    /\ lastRequest.simple = lastRequest.verbose

\* the handlers a user action runs
UserOps == {"dragEnter", "dragLeave", "drop", "click", "fileInput", "upload",
            "dismiss", "reset"}

(* C13: there is no automatic retry.  Only handleUpload issues a request,  *)
(* exactly one per call; after a failed upload no request is pending, the  *)
(* error is displayed, and the orchestrator leaves the error state only by *)
(* a user action.                                                          *)
C13_NoAutomaticRetry ==
  /\ [][ /\ Len(requests') > Len(requests) => lastOp' = "upload"
         /\ (lastOp' = "upload" /\ loading') => Len(requests') = Len(requests) + 1
         /\ (Phase = "error" /\ Phase' # "error") => lastOp' \in UserOps ]_vars
  /\ [](lastOp = "reject" => (requests = <<>> /\ Phase = "error"))

\* a failed upload: the error is displayed and nothing is in flight
C13_Witness == /\ lastOp = "reject"
               /\ lastStatus = 500
               /\ requests = <<>>
               /\ Phase = "error"

(* C15: upload returns the response body when the server answers with a   *)
(* 2xx status and rejects when there is no answer or the status is not     *)
(* 2xx; every such failure is caught by the orchestrator and ends in the   *)
(* error state, never in success.                                          *)
C15_FailuresEndInError ==
  /\ lastOp = "resolve" => lastStatus \in 200..299
  /\ lastOp = "reject" =>
       /\ lastStatus \notin 200..299
       /\ ~loading
       /\ Phase = "error"
       /\ ~Populated(summary)
       /\ ErrorPopulated

\* the request could not complete: no answer, the error is displayed
C15_Witness == /\ lastOp = "reject"
               /\ lastStatus = 0
               /\ lastErr.message = "Network Error"
               /\ error = "Network Error"
               /\ ~Populated(summary)

(* C16: after a resolved upload the stored summary is the payload's        *)
(* 'summary' field when the payload has one, and the whole payload         *)
(* otherwise.  A payload whose summary is the empty string has the field,  *)
(* yet the whole object is stored: TLC finds this violated.                *)
C16_StoresSummaryField ==
  lastOp = "resolve" =>
    summary = IF lastPayload.kind = "obj" /\ lastPayload.hasSummary
              THEN JSStr(lastPayload.summary)
              ELSE lastPayload

C19_NoUserChangeWhileUploading ==
  [][ loading =>
        /\ lastOp' \in UserOps =>
             /\ UNCHANGED <<file, summary, error, loading>>
             /\ requests' = requests
        /\ appVars' # appVars => lastOp' \in {"progress", "resolve", "reject"} ]_vars

\* a click on the surface during an upload that has made progress
C19_Witness == /\ lastOp = "click"
               /\ prevPhase = "uploading"
               /\ loading
               /\ uploadProgress > 0
               /\ ~pickerOpen

(* C20: after every failed upload the error is populated with a non-empty  *)
(* message, so a failure never leaves both summary and error empty.        *)
C20_FailureHasMessage ==
  lastOp = "reject" =>
    /\ error \notin {NullMsg, Undefined, ""}
    /\ ~(summary = JSNull /\ error = NullMsg)

\* a failure that carries no message at all: the static default is displayed
C20_Witness == /\ lastOp = "reject"
               /\ lastErr.detail = Undefined
               /\ lastErr.error = Undefined
               /\ lastErr.message = Undefined
               /\ error = DefaultMsg

(* C21: dismissing the error sets the error to empty and leaves the        *)
(* selected file, the progress, the summary and the loading flag as they   *)
(* were; the file is still selected and "Process Video" is enabled, so the *)
(* same file can be submitted again.                                       *)
C21_DismissClearsOnlyError ==
  [][ lastOp' = "dismiss" =>
        /\ error' = NullMsg
        /\ UNCHANGED <<file, uploadProgress, summary, loading>>
        /\ file' # NoFile
        /\ ~loading'
        /\ mounted' /\ ~Truthy(summary') ]_vars

\* the error of a failed upload was dismissed: the file and the progress of
\* the failed upload are still there
C21_Witness == /\ lastOp = "dismiss"
               /\ prevPhase = "error"
               /\ error = NullMsg
               /\ file # NoFile
               /\ uploadProgress = 50
               /\ Phase = "fileSelected"

(* C22: the drag-hover state of the upload surface.  Entering the drag     *)
(* region sets hover, leaving it clears hover, and every drop clears       *)
(* hover: a drop made while the surface is disabled and a drop of a file   *)
(* that is not a video included.                                          *)
C22_HoverFollowsDrag ==
  [][ /\ lastOp' = "dragEnter" => isDragging'
      /\ lastOp' = "dragLeave" => ~isDragging'
      /\ lastOp' = "drop" => ~isDragging' ]_vars

\* a file that is not a video was dropped during an upload, over a surface
\* that can be hovered: hover is cleared, nothing is selected
C22_Witness == /\ lastOp = "drop"
               /\ prevPhase = "uploading"
               /\ loading
               /\ lastFile # NoFile
               /\ ~IsVideo(lastFile)
               /\ ~selected
               /\ ~isDragging

(* C23: in every reachable state, while the loading flag is true both the  *)
(* summary and the error are empty: handleUpload clears them before the    *)
(* request is issued, and neither is set until the request settles.        *)
C23_LoadingHasNoResult ==
  /\ [](loading => (summary = JSNull /\ error = NullMsg))
  /\ [][ (loading /\ (summary' # summary \/ error' # error)) =>
           (lastOp' \in {"resolve", "reject"} /\ ~loading') ]_vars

\* an upload started from the error state: the previous error is cleared
\* and the request is in flight
C23_Witness == /\ lastOp = "upload"
               /\ prevPhase = "error"
               /\ loading
               /\ Len(requests) = 1
               /\ summary = JSNull
               /\ error = NullMsg

(* C24: in every reachable state a populated summary comes with a selected *)
(* file, and every step that clears or replaces the file leaves the        *)
(* summary empty: a summary is never there for an upload whose file has    *)
(* since been cleared or replaced.                                         *)
C24_SummaryHasItsFile ==
  /\ [](Populated(summary) => file # NoFile)
  /\ [][ file' # file => summary' = JSNull ]_vars

\* the summary of the selected file is displayed
C24_Witness == /\ lastOp = "resolve"
               /\ Populated(summary)
               /\ Truthy(summary)
               /\ SummaryRendered
               /\ file # NoFile

(* C25: in the success state the upload surface, the upload and cancel     *)
(* buttons and the error box are not rendered, so neither a selection nor  *)
(* an upload is possible, and the one enabled user action is the reset     *)
(* button "Upload Another Video".  When the stored summary is the whole    *)
(* payload object the render of SummaryCard throws and no button is left:  *)
(* TLC finds this violated.                                                *)
C25_OnlyResetInSuccess ==
  Phase = "success" =>
    /\ ~UploadBoxRendered
    /\ ~FileActionsRendered
    /\ ~ErrorBoxRendered
    /\ SummaryRendered

(* C26: handleUpload invoked while no file is selected is a no-op: no      *)
(* request is issued and file, progress, loading, summary and error are    *)
(* all unchanged.                                                          *)
C26_UploadWithoutFileIsNoOp ==
  [][ (lastOp' = "upload" /\ file = NoFile) =>
        /\ UNCHANGED <<file, uploadProgress, loading, summary, error>>
        /\ requests' = requests ]_vars

\* handleUpload was called with no file selected: nothing is in flight
C26_Witness == /\ lastOp = "upload"
               /\ prevPhase = "noFile"
               /\ file = NoFile
               /\ ~loading
               /\ requests = <<>>

(* C27: a progress callback changes only the progress percentage: the      *)
(* selected file, the loading flag, the summary and the error are          *)
(* unchanged by it.                                                        *)
C27_ProgressChangesOnlyProgress ==
  [][ lastOp' = "progress" => UNCHANGED <<file, loading, summary, error>> ]_vars

\* a progress callback has reported the whole body sent: the upload is still
\* in flight
C27_Witness == /\ lastOp = "progress"
               /\ uploadProgress = 100
               /\ loading
               /\ file # NoFile
               /\ Len(requests) = 1

\* the percentage of the one request in flight; 0 when none was reported
LastReported ==
  IF requests # <<>> /\ requests[1].total # 0
  THEN (200 * requests[1].loaded + requests[1].total) \div (2 * requests[1].total)
  ELSE 0

(* C28: after a failed upload the progress keeps the last value reported   *)
(* by a progress callback, 0 if none was reported: the failure neither     *)
(* sets it back to 0 nor forces it to 100, and afterwards it changes only  *)
(* by the next selection, handleUpload or reset.                           *)
C28_FailureKeepsProgress ==
  /\ [][ lastOp' = "reject" =>
           /\ uploadProgress' = uploadProgress
           /\ uploadProgress' = LastReported ]_vars
  /\ [][ (~loading /\ uploadProgress' # uploadProgress) =>
           lastOp' \in {"drop", "fileInput", "upload", "reset"} ]_vars

\* the upload failed after half of the body was reported sent
C28_Witness == /\ lastOp = "reject"
               /\ prevPhase = "uploading"
               /\ Phase = "error"
               /\ uploadProgress = 50

====
